---- MODULE Spec2Model ----
(***************************************************************************)
(* SmartPlateESP32: the thermal control loop (HeatingElement), the heating *)
(* mode state machine (HeaterModeManager) and the AC phase-angle stirrer   *)
(* controller (StirrerPhase).                                              *)
(*                                                                         *)
(* The source tree holds two revisions of the thermal loop and of the mode *)
(* manager.  Both are modelled; the variable rev, fixed at Init, selects   *)
(* the pair that is linked together:                                       *)
(*   rev = "v2"     : src/src/heating/HeatingElement.cpp                   *)
(*                    src/src/heating/HeaterModeManager.cpp                *)
(*   rev = "legacy" : src/src/HeatingElement.cpp                           *)
(*                    src/src/HeaterModeManager.cpp                        *)
(*                                                                         *)
(* Temperatures are floats in the source.  They are modelled as integers   *)
(* in tenths of a degree Celsius (49.4 C is 494), plus the value NaN, for  *)
(* which every ordered comparison is false, as in IEEE-754.                *)
(***************************************************************************)
EXTENDS Integers, Sequences, FiniteSets, TLC

VARIABLES
    rev,        \* which revision of the thermal loop / mode manager is linked
    heater,     \* the HeatingElement object (fields) + per-call callback counters
    mm,         \* the HeaterModeManager object (fields) + per-call callback counters
    millis,     \* Arduino millis(), 32-bit unsigned, held in units of 8 ms
    hBegun,     \* setup() has called heater.begin()
    last,       \* history: the last thermal operation; relay, fault and mode
                \* before it, whether the mode's duration had elapsed, the
                \* sensor's fault code at it, the arguments of
                \* setTargetTemperature(), the durationSeconds of setRamp()
                \* and setTimer()
    faultStopped, \* history: a fault forced the relay off, no start()/mode setter since
    faultPending, \* history: a fault was raised in Ramp/Hold/Timer, not yet seen by the mode manager
    tasks,      \* where stateTask is inside heater.start(), heaterTask inside
                \* heater.update() and the esp_timer task inside delayTimerCb
    mainsHz,    \* StirrerPhase: mains frequency given to the constructor
    sp,         \* the StirrerPhase object (fields), its two esp_timers and its gate pin
    nowUs,      \* esp_timer_get_time(), microseconds since boot
    spLast,     \* history: the last stirrer operation and what it did
    spHist      \* history: the previous zero-cross edge, setTargetRPM, stop()

thermalVars == <<rev, heater, mm, millis, hBegun, last, faultStopped, faultPending,
                 tasks>>
stirrerVars == <<mainsHz, sp, nowUs, spLast, spHist>>
vars == <<rev, heater, mm, millis, hBegun, last, faultStopped, faultPending,
          tasks, mainsHz, sp, nowUs, spLast, spHist>>

(***************************************************************************)
(* Floats as tenths of a degree, and NaN.                                  *)
(***************************************************************************)
NaN == 0 - 1000000

isnan(a) == a = NaN

Lt(a, b) == ~isnan(a) /\ ~isnan(b) /\ a < b

Ge(a, b) == ~isnan(a) /\ ~isnan(b) /\ a >= b

Le(a, b) == ~isnan(a) /\ ~isnan(b) /\ a <= b

Gt(a, b) == ~isnan(a) /\ ~isnan(b) /\ a > b

\* float addition / subtraction: NaN is absorbing
FAdd(a, b) == IF isnan(a) \/ isnan(b) THEN NaN ELSE a + b

FSub(a, b) == IF isnan(a) \/ isnan(b) THEN NaN ELSE a - b

FAbs(a) == IF isnan(a) THEN NaN ELSE IF a < 0 THEN 0 - a ELSE a

Pow2(n) == 2 ^ n

(***************************************************************************)
(* Milliseconds.  unsigned long is 32 bits wide on the ESP32, so millis()  *)
(* and every difference of two such values wrap at 2^32 ms.  TLC's          *)
(* integers do not reach 2^32, so times in milliseconds are held in units  *)
(* of 8 ms (millis = 125 stands for millis() = 1000): the clock is         *)
(* observed at that granularity and wraps at 2^32 / 8 = 2^29 units.        *)
(***************************************************************************)
UnitsPerSecond == 1000 \div 8

\* 32-bit unsigned wrap of a value held in 8 ms units
U32(n) == n % Pow2(29)

\* durationSeconds * 1000UL
SecondsToMs(durationSeconds) == U32(durationSeconds * UnitsPerSecond)

(***************************************************************************)
(* Program constants (tenths of a degree where they are temperatures).     *)
(***************************************************************************)
\* MAX_TEMP_LIMIT 70.0f, the maxTempLimit main.cpp constructs the heater with
MaxTemp == 700

\* HeatingElement::TEMP_CHANGE_THRESHOLD = 0.1f
TEMP_CHANGE_THRESHOLD == 1

\* HeatingElement::DEFAULT_TOLERANCE = 1.0f
DEFAULT_TOLERANCE == 10

\* the "5 C hysteresis" of checkFaultConditions: maxTemp - 5.0f
FaultClearBand == 50

\* plausible range of a reading in checkFaultConditions: -50.0f .. 500.0f
MinValidTemp == 0 - 500

MaxValidTemp == 5000

\* HeaterModeManager::DEFAULT_TOLERANCE = 0.5f (legacy: the literal 0.5f)
MM_TOLERANCE == 5

\* HeaterModeManager::HOLD_HYSTERESIS = 1.0f (legacy: the literal 1.0f)
HOLD_HYSTERESIS == 10

(***************************************************************************)
(* Bounds of the model.                                                    *)
(***************************************************************************)
\* millis() advances in steps of TickMs up to MaxMillis (both in 8 ms units)
TickMs == 70

MaxMillis == 150

\* samples the temperature source can deliver
TempInputs == {NaN, 0 - 600, 300, 494, 496, 505, 660, 700}

\* targets / tolerances given to setTargetTemperature and to the mode setters
TargetInputs == {NaN, 500, 698, 800}

ToleranceInputs == {5}

DurationInputs == {1}

\* durationSeconds of one second and of 4294968 s, the least whose product
\* with 1000 exceeds 2^32 - 1 (4294968000 = 2^32 + 704)
AnyDurationInputs == {1, 4294968}

\* millis() one tick before it wraps around
ClockStart == Pow2(29) - TickMs

\* zero-cross edges and calls happen at multiples of QuantumUs microseconds
\* and at the expiry times of the timers, up to MaxTimeUs
QuantumUs == 2000

MaxTimeUs == 12000

\* targets given to setTargetRPM
RpmInputs == {NaN, 0 - 300, 0, 1500, 2400, 3000}

\* targets given to setTargetRPM where the firing is followed in time
TimedRpmInputs == {1500, 3000}

\* values a float-to-uint32_t conversion of NaN may yield
UBCastOutcomes == {0, 5000, 2147483647}

\* temperatures given to the mode setters
RampStartInputs == {200}

ModeTargetInputs == {500}

\* samples below the hold band, above the hold target, at the maximum
SampleInputs == {300, 505, 700}

(***************************************************************************)
(* HeatingElement, revision v2 (src/src/heating/HeatingElement.cpp).       *)
(* Every operator takes the object h and returns it after the call.  The   *)
(* fields nFault, nOn, nOff, nReached, nChanged count the invocations of   *)
(* (nStart, nSetTarget: the calls of start() and setTargetTemperature())    *)
(* the five callbacks during the current top-level call (main.cpp          *)
(* registers callbacks that only log).                                     *)
(***************************************************************************)
HE_setRelay(h, on) ==
    LET w == [h EXCEPT !.relayPin = on]
    IN  IF on /\ ~h.isRunning
        THEN [w EXCEPT !.isRunning = TRUE, !.nOn = @ + 1]
        ELSE IF ~on /\ h.isRunning
             THEN [w EXCEPT !.isRunning = FALSE, !.nOff = @ + 1]
             ELSE w

\* start() without its fault check
StartDespiteFault(h) ==
    IF ~h.isRunning THEN HE_setRelay(h, TRUE) ELSE h

\* start() that reports the heater on although it refuses under a fault
StartNotifiesUnderFault(h) ==
    IF h.fault THEN [h EXCEPT !.nStart = @ + 1, !.nOn = @ + 1]
    ELSE IF ~h.isRunning THEN HE_setRelay([h EXCEPT !.nStart = @ + 1], TRUE)
         ELSE [h EXCEPT !.nStart = @ + 1]

HE_start(h) ==
    LET c == [h EXCEPT !.nStart = @ + 1]
    IN  IF c.fault THEN c
        ELSE IF ~c.isRunning THEN HE_setRelay(c, TRUE) ELSE c

HE_stop(h) ==
    IF h.isRunning THEN HE_setRelay(h, FALSE) ELSE h

HE_begin(h, ok) ==
    IF ~ok THEN [h EXCEPT !.fault = TRUE] ELSE h

\* the fault path without its stop()
RaiseFaultRelayKept(h) ==
    [h EXCEPT !.fault = TRUE, !.nFault = @ + 1]

HE_raiseFault(h) ==
    LET f == HE_stop([h EXCEPT !.fault = TRUE])
    IN  [f EXCEPT !.nFault = @ + 1]

\* checkFaultConditions() that clears the fault without the 5 degree band
ClearFaultBelowMax(h, temp) ==
    IF Ge(temp, MaxTemp) THEN HE_raiseFault(h)
    ELSE IF isnan(temp) \/ Lt(temp, MinValidTemp) \/ Gt(temp, MaxValidTemp)
         THEN HE_raiseFault(h)
         ELSE IF h.fault THEN [h EXCEPT !.fault = FALSE] ELSE h

HE_checkFaultConditions(h, temp) ==
    IF Ge(temp, MaxTemp) THEN HE_raiseFault(h)
    ELSE IF isnan(temp) \/ Lt(temp, MinValidTemp) \/ Gt(temp, MaxValidTemp)
         THEN HE_raiseFault(h)
         ELSE IF h.fault /\ Lt(temp, MaxTemp - FaultClearBand)
              THEN [h EXCEPT !.fault = FALSE]
              ELSE h

\* a switch-on threshold without the tolerance band
OnThresholdNoBand(h) == h.targetTemp

\* targetTemp - targetTolerance: the relay is switched on below it
OnThreshold(h) == FSub(h.targetTemp, h.targetTolerance)

\* targetTemp + targetTolerance: the relay is switched off from it upwards
OffThreshold(h) == FAdd(h.targetTemp, h.targetTolerance)

\* executeBangBangControl() that notifies on every sample in the band
BangBangWithoutLatch(h) ==
    IF ~h.targetTempSet THEN h
    ELSE
      LET lo == OnThreshold(h)
          hi == OffThreshold(h)
          b  == IF Lt(h.currentTemp, lo) THEN HE_setRelay(h, TRUE)
                ELSE IF Ge(h.currentTemp, hi) THEN HE_setRelay(h, FALSE)
                ELSE h
      IN  IF b.isRunning /\ b.targetTempSet /\ Ge(b.currentTemp, lo)
             /\ Le(b.currentTemp, hi)
          THEN [b EXCEPT !.targetReachedTriggered = TRUE, !.nReached = @ + 1]
          ELSE IF Lt(b.currentTemp, lo)
               THEN [b EXCEPT !.targetReachedTriggered = FALSE]
               ELSE b

HE_executeBangBangControl(h) ==
    IF ~h.targetTempSet THEN h
    ELSE
      LET lo == OnThreshold(h)
          hi == OffThreshold(h)
          b  == IF Lt(h.currentTemp, lo) THEN HE_setRelay(h, TRUE)
                ELSE IF Ge(h.currentTemp, hi) THEN HE_setRelay(h, FALSE)
                ELSE h
      IN  IF b.isRunning /\ b.targetTempSet /\ Ge(b.currentTemp, lo)
             /\ Le(b.currentTemp, hi) /\ ~b.targetReachedTriggered
          THEN [b EXCEPT !.targetReachedTriggered = TRUE, !.nReached = @ + 1]
          ELSE IF Lt(b.currentTemp, lo)
               THEN [b EXCEPT !.targetReachedTriggered = FALSE]
               ELSE b

\* processTemperatureReading() that goes on into bang-bang control whatever
\* the fault step found
ProcessIgnoresFault(h, temp) ==
    LET previousTemp == h.currentTemp
        s == [h EXCEPT !.currentTemp = temp]
        c == IF isnan(previousTemp)
                \/ Gt(FAbs(FSub(temp, previousTemp)), TEMP_CHANGE_THRESHOLD)
             THEN [s EXCEPT !.nChanged = @ + 1]
             ELSE s
    IN  HE_executeBangBangControl(HE_checkFaultConditions(c, temp))

HE_processTemperatureReading(h, temp) ==
    LET previousTemp == h.currentTemp
        s == [h EXCEPT !.currentTemp = temp]
        c == IF isnan(previousTemp)
                \/ Gt(FAbs(FSub(temp, previousTemp)), TEMP_CHANGE_THRESHOLD)
             THEN [s EXCEPT !.nChanged = @ + 1]
             ELSE s
        f == HE_checkFaultConditions(c, temp)
    IN  IF ~f.fault THEN HE_executeBangBangControl(f) ELSE f

\* update(): temp is thermo.temperature(), faultCode is thermo.readFault() # 0
HE_update(h, temp, faultCode) ==
    IF faultCode THEN HE_raiseFault(h)
    ELSE HE_processTemperatureReading(h, temp)

\* setTargetTemperature() that leaves the target-reached latch as it is
SetTargetKeepsLatch(h, target, tolerance) ==
    [h EXCEPT !.targetTemp = target, !.targetTolerance = tolerance,
              !.targetTempSet = TRUE, !.nSetTarget = @ + 1]

HE_setTargetTemperature(h, target, tolerance) ==
    [h EXCEPT !.targetTemp = target, !.targetTolerance = tolerance,
              !.targetTempSet = TRUE, !.targetReachedTriggered = FALSE,
              !.nSetTarget = @ + 1]

HE_clearTargetTemperature(h) ==
    [h EXCEPT !.targetTempSet = FALSE, !.targetReachedTriggered = FALSE]

(***************************************************************************)
(* HeatingElement, legacy revision (src/src/HeatingElement.cpp).           *)
(***************************************************************************)
HE1_setRelay(h, on) ==
    LET w == [h EXCEPT !.relayPin = on]
    IN  IF on /\ ~h.isRunning
        THEN [w EXCEPT !.isRunning = TRUE, !.nOn = @ + 1]
        ELSE IF ~on /\ h.isRunning
             THEN [w EXCEPT !.isRunning = FALSE, !.nOff = @ + 1]
             ELSE w

\* start() invokes onHeaterOn once more after setRelay already did
HE1_start(h) ==
    LET c == [h EXCEPT !.nStart = @ + 1]
    IN  IF ~c.isRunning /\ ~c.fault
        THEN [HE1_setRelay(c, TRUE) EXCEPT !.nOn = @ + 1]
        ELSE c

\* stop() invokes onHeaterOff once more after setRelay already did
HE1_stop(h) ==
    IF h.isRunning
    THEN [HE1_setRelay(h, FALSE) EXCEPT !.nOff = @ + 1]
    ELSE h

HE1_addTemperatureReading(h, temp) ==
    LET s  == [h EXCEPT !.currentTemp = temp]
        f  == IF Ge(temp, MaxTemp)
              THEN [HE1_stop([s EXCEPT !.fault = TRUE]) EXCEPT !.nFault = @ + 1]
              ELSE [s EXCEPT !.fault = FALSE]
        lo == OnThreshold(f)
        hi == OffThreshold(f)
        b  == IF f.targetTempSet /\ ~f.fault
              THEN IF Lt(temp, lo) THEN HE1_setRelay(f, TRUE)
                   ELSE IF Ge(temp, hi) THEN HE1_setRelay(f, FALSE)
                   ELSE f
              ELSE f
    IN  IF b.isRunning /\ ~b.fault /\ b.targetTempSet /\ Ge(temp, lo)
           /\ ~b.targetReachedTriggered
        THEN [b EXCEPT !.targetReachedTriggered = TRUE, !.nReached = @ + 1]
        ELSE IF Lt(temp, lo)
             THEN [b EXCEPT !.targetReachedTriggered = FALSE]
             ELSE b

\* update(): the sensor fault code is only printed and cleared
HE1_update(h, temp, faultCode) == HE1_addTemperatureReading(h, temp)

HE1_setTargetTemperature(h, target, tolerance) ==
    [h EXCEPT !.targetTemp = target, !.targetTolerance = tolerance,
              !.targetTempSet = TRUE, !.targetReachedTriggered = FALSE,
              !.nSetTarget = @ + 1]

(***************************************************************************)
(* The thermal loop of the linked revision.                                *)
(***************************************************************************)
H_start(h) == IF rev = "v2" THEN HE_start(h) ELSE HE1_start(h)

H_stop(h) == IF rev = "v2" THEN HE_stop(h) ELSE HE1_stop(h)

H_update(h, temp, faultCode) ==
    IF rev = "v2" THEN HE_update(h, temp, faultCode)
    ELSE HE1_update(h, temp, faultCode)

H_setTargetTemperature(h, target, tolerance) ==
    IF rev = "v2" THEN HE_setTargetTemperature(h, target, tolerance)
    ELSE HE1_setTargetTemperature(h, target, tolerance)

\* the object as it enters a top-level call: callback counters at zero
Fresh(h) == [h EXCEPT !.nFault = 0, !.nOn = 0, !.nOff = 0,
                      !.nReached = 0, !.nChanged = 0,
                      !.nStart = 0, !.nSetTarget = 0]

HeaterInit(r) ==
    [relayPin |-> FALSE, isRunning |-> FALSE, fault |-> FALSE,
     currentTemp |-> IF r = "v2" THEN NaN ELSE 0,
     targetTemp |-> 0,
     targetTolerance |-> IF r = "v2" THEN DEFAULT_TOLERANCE ELSE 0,
     targetTempSet |-> FALSE, targetReachedTriggered |-> FALSE,
     nFault |-> 0, nOn |-> 0, nOff |-> 0, nReached |-> 0, nChanged |-> 0,
     nStart |-> 0, nSetTarget |-> 0]

(***************************************************************************)
(* HeaterModeManager, revision v2 (src/src/heating/HeaterModeManager.cpp). *)
(* An operator takes the pair p = [m |-> mode manager, h |-> heater] (the  *)
(* manager holds a reference to the heater) and returns it after the call. *)
(* now is the value millis() returns during the call.                      *)
(***************************************************************************)
MM_setOff(p) ==
    [m |-> [p.m EXCEPT !.mode = "OFF"],
     h |-> HE_clearTargetTemperature(HE_stop(p.h))]

MM_setRamp(p, startTemp, endTemp, durationSeconds, tolerance, now) ==
    [m |-> [p.m EXCEPT !.mode = "RAMP",
                       !.rampStartTemp = startTemp, !.rampEndTemp = endTemp,
                       !.rampDuration = SecondsToMs(durationSeconds),
                       !.rampStartTime = now, !.rampTolerance = tolerance],
     h |-> HE_start(HE_setTargetTemperature(p.h, startTemp, tolerance))]

MM_setHold(p, holdTemp, tolerance) ==
    [m |-> [p.m EXCEPT !.mode = "HOLD",
                       !.holdTargetTemp = holdTemp, !.holdTolerance = tolerance],
     h |-> HE_start(HE_setTargetTemperature(p.h, holdTemp, tolerance))]

MM_setTimer(p, durationSeconds, targetTemp, useTemp, tolerance, now) ==
    [m |-> [p.m EXCEPT !.mode = "TIMER",
                       !.timerDuration = SecondsToMs(durationSeconds),
                       !.timerStartTime = now, !.timerTargetTemp = targetTemp,
                       !.timerUseTemp = useTemp, !.timerTolerance = tolerance],
     h |-> HE_start(IF useTemp
                    THEN HE_setTargetTemperature(p.h, targetTemp, tolerance)
                    ELSE p.h)]

\* calculateRampTarget() that returns the end temperature at once
RampTargetIsEnd(m, now) == m.rampEndTemp

\* progress = elapsed / duration clamped to [0, 1]; start + (end - start) * progress
MM_calculateRampTarget(m, now) ==
    LET elapsed == U32(now - m.rampStartTime)
        e == IF elapsed > m.rampDuration THEN m.rampDuration ELSE elapsed
    IN  IF m.rampDuration = 0 THEN NaN
        ELSE m.rampStartTemp
             + ((m.rampEndTemp - m.rampStartTemp) * e) \div m.rampDuration

MM_complete(p) == [p EXCEPT !.m.nComplete = @ + 1]

\* updateRampMode() that interpolates for ever
RampNeverCompletes(p, now) ==
    LET t == HE_setTargetTemperature(
                 p.h, MM_calculateRampTarget(p.m, now), p.m.rampTolerance)
    IN  [p EXCEPT !.h = IF ~t.isRunning THEN HE_start(t) ELSE t]

MM_updateRampMode(p, now) ==
    LET elapsed == U32(now - p.m.rampStartTime)
    IN  IF elapsed >= p.m.rampDuration
        THEN MM_setOff(MM_complete(
                 [p EXCEPT !.h = HE_setTargetTemperature(
                                     p.h, p.m.rampEndTemp, p.m.rampTolerance)]))
        ELSE LET t == HE_setTargetTemperature(
                          p.h, MM_calculateRampTarget(p.m, now), p.m.rampTolerance)
             IN  [p EXCEPT !.h = IF ~t.isRunning THEN HE_start(t) ELSE t]

\* updateHoldMode() that ends the hold once the target is reached
HoldEndsAtTarget(p, currentTemp) ==
    IF Ge(currentTemp, p.m.holdTargetTemp) THEN MM_setOff(MM_complete(p)) ELSE p

MM_updateHoldMode(p, currentTemp) ==
    IF ~p.h.isRunning
       /\ Lt(currentTemp, FSub(p.m.holdTargetTemp, HOLD_HYSTERESIS))
    THEN [p EXCEPT !.h = HE_start(p.h)]
    ELSE p

\* updateTimerMode() that completes whatever time has elapsed
TimerCompletesAtOnce(p, now) == MM_setOff(MM_complete(p))

MM_updateTimerMode(p, now) ==
    LET elapsed == U32(now - p.m.timerStartTime)
    IN  IF elapsed >= p.m.timerDuration
        THEN MM_setOff(MM_complete(p))
        ELSE [p EXCEPT !.h = IF ~p.h.isRunning THEN HE_start(p.h) ELSE p.h]

\* handleFault() that notifies and leaves the mode as it is
HandleFaultKeepsMode(p) == [p EXCEPT !.m.nFault = @ + 1]

MM_handleFault(p) == MM_setOff([p EXCEPT !.m.nFault = @ + 1])

MM_update(p, currentTemp, now) ==
    IF p.h.fault THEN MM_handleFault(p)
    ELSE CASE p.m.mode = "OFF"   -> [p EXCEPT !.h = IF p.h.isRunning
                                                    THEN HE_stop(p.h) ELSE p.h]
           [] p.m.mode = "RAMP"  -> MM_updateRampMode(p, now)
           [] p.m.mode = "HOLD"  -> MM_updateHoldMode(p, currentTemp)
           [] p.m.mode = "TIMER" -> MM_updateTimerMode(p, now)

(***************************************************************************)
(* HeaterModeManager, legacy revision (src/src/HeaterModeManager.cpp).     *)
(***************************************************************************)
MM1_setOff(p) ==
    [m |-> [p.m EXCEPT !.mode = "OFF"], h |-> HE1_stop(p.h)]

MM1_setRamp(p, startTemp, endTemp, durationSeconds, now) ==
    [m |-> [p.m EXCEPT !.mode = "RAMP",
                       !.rampStartTemp = startTemp, !.rampEndTemp = endTemp,
                       !.rampDuration = SecondsToMs(durationSeconds),
                       !.rampStartTime = now],
     h |-> HE1_start(HE1_setTargetTemperature(p.h, endTemp, MM_TOLERANCE))]

MM1_setHold(p, holdTemp) ==
    [m |-> [p.m EXCEPT !.mode = "HOLD"],
     h |-> HE1_start(HE1_setTargetTemperature(p.h, holdTemp, MM_TOLERANCE))]

MM1_setTimer(p, durationSeconds, targetTemp, useTemp, now) ==
    [m |-> [p.m EXCEPT !.mode = "TIMER",
                       !.timerDuration = SecondsToMs(durationSeconds),
                       !.timerStartTime = now, !.timerUseTemp = useTemp],
     h |-> HE1_start(IF useTemp
                     THEN HE1_setTargetTemperature(p.h, targetTemp, MM_TOLERANCE)
                     ELSE p.h)]

MM1_updateRamp(p, now) ==
    LET elapsedMs == U32(now - p.m.rampStartTime)
    IN  IF elapsedMs >= p.m.rampDuration
        THEN MM1_setOff(MM_complete(
                 [p EXCEPT !.h = HE1_setTargetTemperature(
                                     p.h, p.m.rampEndTemp, MM_TOLERANCE)]))
        ELSE LET interpolatedTarget ==
                     p.m.rampStartTemp
                     + ((p.m.rampEndTemp - p.m.rampStartTemp) * elapsedMs)
                       \div p.m.rampDuration
                 t == HE1_setTargetTemperature(p.h, interpolatedTarget, MM_TOLERANCE)
             IN  [p EXCEPT !.h = IF ~t.isRunning THEN HE1_start(t) ELSE t]

MM1_updateHold(p, currentTemp) ==
    LET target == p.h.targetTemp
    IN  IF ~p.h.isRunning /\ Lt(currentTemp, FSub(target, HOLD_HYSTERESIS))
        THEN [p EXCEPT !.h = HE1_start(p.h)]
        ELSE IF p.h.isRunning /\ Ge(currentTemp, target)
             THEN [p EXCEPT !.h = HE1_stop(p.h)]
             ELSE p

MM1_updateTimer(p, now) ==
    LET s == [p EXCEPT !.h = IF ~p.h.isRunning THEN HE1_start(p.h) ELSE p.h]
        elapsedMs == U32(now - p.m.timerStartTime)
    IN  IF elapsedMs >= p.m.timerDuration
        THEN MM1_setOff(MM_complete(s))
        ELSE s

\* legacy update() that leaves the heater alone in Off mode
LegacyUpdateIdleInOff(p, currentTemp, now) ==
    IF p.h.fault THEN MM1_setOff([p EXCEPT !.m.nFault = @ + 1])
    ELSE CASE p.m.mode = "OFF"   -> p
           [] p.m.mode = "RAMP"  -> MM1_updateRamp(p, now)
           [] p.m.mode = "HOLD"  -> MM1_updateHold(p, currentTemp)
           [] p.m.mode = "TIMER" -> MM1_updateTimer(p, now)

MM1_update(p, currentTemp, now) ==
    IF p.h.fault THEN MM1_setOff([p EXCEPT !.m.nFault = @ + 1])
    ELSE CASE p.m.mode = "OFF"   -> [p EXCEPT !.h = HE1_stop(p.h)]
           [] p.m.mode = "RAMP"  -> MM1_updateRamp(p, now)
           [] p.m.mode = "HOLD"  -> MM1_updateHold(p, currentTemp)
           [] p.m.mode = "TIMER" -> MM1_updateTimer(p, now)

ModeManagerInit ==
    [mode |-> "OFF",
     rampStartTemp |-> 0, rampEndTemp |-> 0, rampDuration |-> 0,
     rampStartTime |-> 0, rampTolerance |-> MM_TOLERANCE,
     holdTargetTemp |-> 0, holdTolerance |-> MM_TOLERANCE,
     timerDuration |-> 0, timerStartTime |-> 0, timerTargetTemp |-> 0,
     timerUseTemp |-> FALSE, timerTolerance |-> MM_TOLERANCE,
     nComplete |-> 0, nFault |-> 0]

\* the object as it enters a top-level call: callback counters at zero
FreshM(m) == [m EXCEPT !.nComplete = 0, !.nFault = 0]

(***************************************************************************)
(* The mode manager of the linked revision.                                *)
(***************************************************************************)
M_setOff(p) == IF rev = "v2" THEN MM_setOff(p) ELSE MM1_setOff(p)

M_setRamp(p, startTemp, endTemp, durationSeconds, now) ==
    IF rev = "v2"
    THEN MM_setRamp(p, startTemp, endTemp, durationSeconds, MM_TOLERANCE, now)
    ELSE MM1_setRamp(p, startTemp, endTemp, durationSeconds, now)

M_setHold(p, holdTemp) ==
    IF rev = "v2" THEN MM_setHold(p, holdTemp, MM_TOLERANCE)
    ELSE MM1_setHold(p, holdTemp)

M_setTimer(p, durationSeconds, targetTemp, useTemp, now) ==
    IF rev = "v2"
    THEN MM_setTimer(p, durationSeconds, targetTemp, useTemp, MM_TOLERANCE, now)
    ELSE MM1_setTimer(p, durationSeconds, targetTemp, useTemp, now)

M_update(p, currentTemp, now) ==
    IF rev = "v2" THEN MM_update(p, currentTemp, now)
    ELSE MM1_update(p, currentTemp, now)

(***************************************************************************)
(* Top-level calls on the thermal loop and the mode manager.  Each action  *)
(* is one call from a task or from the operator-facing layer, run to       *)
(* completion.                                                             *)
(***************************************************************************)
Pre(op) ==
    [op |-> op, wasRunning |-> heater.isRunning, wasFault |-> heater.fault,
     updMode |-> "NONE", updDue |-> FALSE, sensorFault |-> FALSE,
     target |-> 0, tolerance |-> 0, seconds |-> 0]

Pair == [m |-> FreshM(mm), h |-> Fresh(heater)]

\* at modeManager.update(): the duration of the active Ramp or Timer has elapsed
DurationElapsed ==
    \/ mm.mode = "RAMP" /\ U32(millis - mm.rampStartTime) >= mm.rampDuration
    \/ mm.mode = "TIMER" /\ U32(millis - mm.timerStartTime) >= mm.timerDuration

\* setup(): heater.begin(); ok is the result of thermo.begin()
HeaterBegin ==
    /\ ~hBegun
    /\ \E ok \in BOOLEAN :
         heater' = IF rev = "v2" THEN HE_begin(Fresh(heater), ok) ELSE Fresh(heater)
    /\ last' = Pre("begin")
    /\ hBegun' = TRUE
    /\ UNCHANGED stirrerVars
    /\ UNCHANGED tasks
    /\ UNCHANGED <<rev, mm, millis, faultStopped, faultPending>>

\* heaterTask: heater.update(), the sample drawn from temps and the sensor's
\* fault code from codes
HeaterUpdateOf(temps, codes) ==
    /\ hBegun
    /\ \E temp \in temps, faultCode \in codes :
         /\ heater' = H_update(Fresh(heater), temp, faultCode)
         /\ last' = [Pre("update") EXCEPT !.sensorFault = faultCode]
    /\ mm' = FreshM(mm)
    /\ faultStopped' = IF heater'.nFault > 0 /\ heater.isRunning THEN TRUE
                       ELSE faultStopped
    /\ faultPending' = IF heater'.nFault > 0 /\ mm.mode # "OFF" THEN TRUE
                       ELSE faultPending
    /\ UNCHANGED stirrerVars
    /\ UNCHANGED tasks
    /\ UNCHANGED <<rev, millis, hBegun>>

HeaterUpdate == HeaterUpdateOf(TempInputs, BOOLEAN)

\* heater.update() with the samples the mode manager's branches tell apart
HeaterSample == HeaterUpdateOf(SampleInputs, {FALSE})

HeaterStart ==
    /\ hBegun
    /\ heater' = H_start(Fresh(heater))
    /\ last' = Pre("start")
    /\ mm' = FreshM(mm)
    /\ faultStopped' = FALSE
    /\ UNCHANGED stirrerVars
    /\ UNCHANGED tasks
    /\ UNCHANGED <<rev, millis, hBegun, faultPending>>

HeaterStop ==
    /\ hBegun
    /\ heater' = H_stop(Fresh(heater))
    /\ last' = Pre("stop")
    /\ mm' = FreshM(mm)
    /\ UNCHANGED stirrerVars
    /\ UNCHANGED tasks
    /\ UNCHANGED <<rev, millis, hBegun, faultStopped, faultPending>>

HeaterSetTarget ==
    /\ hBegun
    /\ \E target \in TargetInputs, tolerance \in ToleranceInputs :
         /\ heater' = H_setTargetTemperature(Fresh(heater), target, tolerance)
         /\ last' = [Pre("setTarget") EXCEPT !.target = target,
                                             !.tolerance = tolerance]
    /\ mm' = FreshM(mm)
    /\ UNCHANGED stirrerVars
    /\ UNCHANGED tasks
    /\ UNCHANGED <<rev, millis, hBegun, faultStopped, faultPending>>

\* v2 only: heater.clearTargetTemperature()
HeaterClearTarget ==
    /\ hBegun
    /\ rev = "v2"
    /\ heater' = HE_clearTargetTemperature(Fresh(heater))
    /\ last' = Pre("clearTarget")
    /\ mm' = FreshM(mm)
    /\ UNCHANGED stirrerVars
    /\ UNCHANGED tasks
    /\ UNCHANGED <<rev, millis, hBegun, faultStopped, faultPending>>

ModeSetOff ==
    /\ hBegun
    /\ LET q == M_setOff(Pair) IN mm' = q.m /\ heater' = q.h
    /\ last' = Pre("setOff")
    /\ UNCHANGED stirrerVars
    /\ UNCHANGED tasks
    /\ UNCHANGED <<rev, millis, hBegun, faultStopped, faultPending>>

SetRampOf(durations) ==
    /\ hBegun
    /\ \E startTemp \in RampStartInputs, endTemp \in ModeTargetInputs,
          durationSeconds \in durations :
         /\ LET q == M_setRamp(Pair, startTemp, endTemp, durationSeconds, millis)
            IN  mm' = q.m /\ heater' = q.h
         /\ last' = [Pre("setRamp") EXCEPT !.seconds = durationSeconds]
    /\ faultStopped' = FALSE
    /\ UNCHANGED stirrerVars
    /\ UNCHANGED tasks
    /\ UNCHANGED <<rev, millis, hBegun, faultPending>>

ModeSetHold ==
    /\ hBegun
    /\ \E holdTemp \in ModeTargetInputs :
         LET q == M_setHold(Pair, holdTemp) IN mm' = q.m /\ heater' = q.h
    /\ last' = Pre("setHold")
    /\ faultStopped' = FALSE
    /\ UNCHANGED stirrerVars
    /\ UNCHANGED tasks
    /\ UNCHANGED <<rev, millis, hBegun, faultPending>>

SetTimerOf(durations) ==
    /\ hBegun
    /\ \E durationSeconds \in durations, targetTemp \in ModeTargetInputs,
          useTemp \in BOOLEAN :
         /\ LET q == M_setTimer(Pair, durationSeconds, targetTemp, useTemp, millis)
            IN  mm' = q.m /\ heater' = q.h
         /\ last' = [Pre("setTimer") EXCEPT !.seconds = durationSeconds]
    /\ faultStopped' = FALSE
    /\ UNCHANGED stirrerVars
    /\ UNCHANGED tasks
    /\ UNCHANGED <<rev, millis, hBegun, faultPending>>

\* setRamp() and setTimer() with the short durations
ModeSetRamp == SetRampOf(DurationInputs)

ModeSetTimer == SetTimerOf(DurationInputs)

\* setRamp() and setTimer() with any durationSeconds, those whose product
\* with 1000 does not fit unsigned long included
ModeSetRampAny == SetRampOf(AnyDurationInputs)

ModeSetTimerAny == SetTimerOf(AnyDurationInputs)

\* stateTask: modeManager.update(heater.getCurrentTemperature())
ModeUpdate ==
    /\ hBegun
    /\ LET q == M_update(Pair, heater.currentTemp, millis)
       IN  /\ mm' = q.m
           /\ heater' = q.h
           /\ faultPending' = IF q.m.nFault > 0 THEN FALSE ELSE faultPending
    /\ last' = [Pre("mmUpdate") EXCEPT !.updMode = mm.mode,
                                       !.updDue = DurationElapsed]
    /\ UNCHANGED stirrerVars
    /\ UNCHANGED tasks
    /\ UNCHANGED <<rev, millis, hBegun, faultStopped>>

\* time passes on a clock that started at ClockStart and wraps around
TickAround ==
    /\ hBegun
    /\ U32(millis - ClockStart) + TickMs <= MaxMillis
    /\ millis' = U32(millis + TickMs)
    /\ UNCHANGED stirrerVars
    /\ UNCHANGED tasks
    /\ UNCHANGED <<rev, heater, mm, hBegun, last, faultStopped, faultPending>>

\* time passes
Tick ==
    /\ hBegun
    /\ millis + TickMs <= MaxMillis
    /\ millis' = U32(millis + TickMs)
    /\ UNCHANGED stirrerVars
    /\ UNCHANGED tasks
    /\ UNCHANGED <<rev, heater, mm, hBegun, last, faultStopped, faultPending>>

(***************************************************************************)
(* StirrerPhase (src/src/stirrer.cpp, src/include/stirrer.h).              *)
(*                                                                         *)
(* The RPM-to-delay mapping is float arithmetic in the source.  It is      *)
(* modelled in exact rational arithmetic: a float is NaN or a fraction     *)
(* [n, d] in lowest terms with d > 0, and only the final conversion to     *)
(* uint32_t truncates, as the cast in the source does.                     *)
(***************************************************************************)
RECURSIVE Gcd(_, _)
Gcd(a, b) == IF b = 0 THEN a ELSE Gcd(b, a % b)

Frac(n, d) ==
    LET an == IF n < 0 THEN 0 - n ELSE n
        g  == Gcd(an, d)
    IN  [n |-> n \div g, d |-> d \div g]

RNaN == [n |-> 0, d |-> 0]

RIsNaN(a) == a.d = 0

RInt(i) == IF isnan(i) THEN RNaN ELSE [n |-> i, d |-> 1]

RLt(a, b) == ~RIsNaN(a) /\ ~RIsNaN(b) /\ a.n * b.d < b.n * a.d

RLe(a, b) == ~RIsNaN(a) /\ ~RIsNaN(b) /\ a.n * b.d <= b.n * a.d

RSub(a, b) ==
    IF RIsNaN(a) \/ RIsNaN(b) THEN RNaN
    ELSE Frac(a.n * b.d - b.n * a.d, a.d * b.d)

RMul(a, b) ==
    IF RIsNaN(a) \/ RIsNaN(b) THEN RNaN ELSE Frac(a.n * b.n, a.d * b.d)

\* a / b; x / 0 is an infinity or NaN in IEEE-754, both held as NaN here
\* (the divisors maxRpm and maxPercent - minPercent are not 0)
RDiv(a, b) ==
    IF RIsNaN(a) \/ RIsNaN(b) \/ b.n = 0 THEN RNaN
    ELSE IF b.n > 0 THEN Frac(a.n * b.d, a.d * b.n)
         ELSE Frac(0 - a.n * b.d, 0 - a.d * b.n)

\* mainsHz == 50 ? 1000000U / 100 : 1000000U / 120
halfCycleUs == IF mainsHz = 50 THEN 1000000 \div 100 ELSE 1000000 \div 120

\* float minPercent = 5.0f
minPercent == 5

\* float maxPercent = 95.0f
maxPercent == 95

\* float maxRpm = 3000.0f
maxRpm == 3000

\* uint32_t gatePulseUs = 120
gatePulseUs == 120

\* the "small safety margin" of computeDelayFromPercent: halfCycleUs - 200
SafetyMarginUs == 200

\* an esp_timer that is not armed
NotArmed == 0 - 1

rpmToPercent(rpm) == RMul(RDiv(RInt(rpm), RInt(maxRpm)), RInt(100))

\* (uint32_t)(alphaFrac * (float)halfCycleUs).  ub is what the conversion
\* of a NaN yields (undefined behaviour: any 32-bit value)
\* the conversion to uint32_t rounding up instead of truncating
DelayRoundedUp(alphaFrac, ub) ==
    IF RIsNaN(alphaFrac) THEN ub
    ELSE (alphaFrac.n * halfCycleUs + alphaFrac.d - 1) \div alphaFrac.d

delayFromAlpha(alphaFrac, ub) ==
    IF RIsNaN(alphaFrac) THEN ub
    ELSE (alphaFrac.n * halfCycleUs) \div alphaFrac.d

\* the gamma curve without its inversion: alphaFrac = powerFrac
InvertedAlpha(x) == RMul(x, x)

\* powerFrac = powf(x, 2.0f); alphaFrac = 1.0f - powerFrac
alphaFromX(x) == RSub(RInt(1), RMul(x, x))

\* the delay without its clamp
UnclampedDelay(d) == d

\* if (d > halfCycleUs - 200) d = halfCycleUs - 200
clampDelay(d) ==
    IF d > halfCycleUs - SafetyMarginUs THEN halfCycleUs - SafetyMarginUs ELSE d

computeDelayFromPercent(pct, ub) ==
    LET p1 == IF RLe(pct, RInt(minPercent)) THEN RInt(minPercent) ELSE pct
        p  == IF RLe(RInt(maxPercent), p1) THEN RInt(maxPercent) ELSE p1
        x  == RDiv(RSub(p, RInt(minPercent)),
                   RSub(RInt(maxPercent), RInt(minPercent)))
    IN  clampDelay(delayFromAlpha(alphaFromX(x), ub))

\* setTargetRPM() that moves the pending fire by the change of the delay
SetTargetRPMRetimes(s, rpm, ub) ==
    LET pct0 == rpmToPercent(rpm)
        pct1 == IF RLt(pct0, RInt(minPercent)) THEN RInt(minPercent) ELSE pct0
        pct  == IF RLt(RInt(maxPercent), pct1) THEN RInt(maxPercent) ELSE pct1
        d    == computeDelayFromPercent(pct, ub)
    IN  [s EXCEPT !.targetRpm = rpm, !.delayUs = d,
                  !.delayTimer = IF @ = NotArmed \/ @ + d < s.delayUs THEN @
                                 ELSE @ + d - s.delayUs]

SP_setTargetRPM(s, rpm, ub) ==
    LET pct0 == rpmToPercent(rpm)
        pct1 == IF RLt(pct0, RInt(minPercent)) THEN RInt(minPercent) ELSE pct0
        pct  == IF RLt(RInt(maxPercent), pct1) THEN RInt(maxPercent) ELSE pct1
    IN  [s EXCEPT !.targetRpm = rpm, !.delayUs = computeDelayFromPercent(pct, ub)]

\* begin() without the begun guard
BeginAgain(s) ==
    [s EXCEPT !.begun = TRUE, !.moc = 0,
              !.isrHandlers = @ + 1,
              !.delayTimersCreated = @ + 1,
              !.pulseTimersCreated = @ + 1]

SP_begin(s) ==
    IF s.begun THEN s
    ELSE [s EXCEPT !.begun = TRUE, !.moc = 0,
                   !.isrHandlers = @ + 1,
                   !.delayTimersCreated = @ + 1,
                   !.pulseTimersCreated = @ + 1]

\* a start() that does not call begin()
StartWithoutBegin(s) ==
    IF ~s.running /\ ~s.fault THEN [s EXCEPT !.running = TRUE] ELSE s

SP_start(s) ==
    LET b == IF ~s.begun THEN SP_begin(s) ELSE s
    IN  IF ~b.running /\ ~b.fault THEN [b EXCEPT !.running = TRUE] ELSE b

SP_stop(s) ==
    IF s.running THEN [s EXCEPT !.running = FALSE, !.moc = 0] ELSE s

\* a scheduleFireFromNow() without the test of running
ScheduleWhenStopped(s, us, now) ==
    IF us >= halfCycleUs THEN s
    ELSE [s EXCEPT !.delayTimer = now + us, !.fireScheduled = TRUE,
                   !.nArmed = @ + 1]

\* esp_timer_stop(delayTimer); esp_timer_start_once(delayTimer, us)
SP_scheduleFireFromNow(s, us, now) ==
    IF ~s.running THEN s
    ELSE IF us >= halfCycleUs THEN s
    ELSE [s EXCEPT !.delayTimer = now + us, !.fireScheduled = TRUE,
                   !.nArmed = @ + 1]

\* a handler that debounces nothing
NeverBounce(prev, now) == FALSE

\* the debounce test of the zero-cross handler
IsBounce(prev, now) == prev # 0 /\ (now - prev) < (halfCycleUs \div 3)

SP_zc_isr_handler(s, now) ==
    LET prev == s.lastZcUsec
        x == [s EXCEPT !.lastZcUsec = now]
    IN  IF IsBounce(prev, now) THEN x
        ELSE SP_scheduleFireFromNow(x, x.delayUs, now)

\* esp_timer_start_once fails with ESP_ERR_INVALID_STATE on a timer that is
\* still armed and leaves its expiry as it is
SP_delayTimerCb(s, now) ==
    IF ~s.fireScheduled THEN s
    ELSE [s EXCEPT !.moc = 1,
                   !.pulseTimer = IF @ = NotArmed THEN now + gatePulseUs ELSE @,
                   !.fireScheduled = FALSE,
                   !.nFired = @ + 1]

\* a pulseTimerCb() that leaves the gate as it is
PulseKeepsGate(s) == s

SP_pulseTimerCb(s) == [s EXCEPT !.moc = 0]

\* ~StirrerPhase(): both timers are stopped and deleted and g_instance is
\* reset; the handler begin() added with gpio_isr_handler_add stays registered
SP_destroy(s) ==
    [s EXCEPT !.delayTimer = NotArmed, !.pulseTimer = NotArmed,
              !.delayTimersCreated = 0, !.pulseTimersCreated = 0,
              !.destroyed = TRUE]

\* zc_isr_handler(arg) with arg pointing to a destroyed instance: it reads and
\* writes released memory and starts a deleted timer; the memory is left as
\* it was, or takes the edge's time, or has fireScheduled set as well
DanglingOutcomes(s, now) ==
    {s,
     [s EXCEPT !.lastZcUsec = now],
     [s EXCEPT !.lastZcUsec = now, !.fireScheduled = TRUE]}

StirrerInitObject ==
    [begun |-> FALSE, running |-> FALSE, fault |-> FALSE,
     fireScheduled |-> FALSE, lastZcUsec |-> 0, delayUs |-> 0, targetRpm |-> 0,
     delayTimer |-> NotArmed, pulseTimer |-> NotArmed, moc |-> 0,
     isrHandlers |-> 0, delayTimersCreated |-> 0, pulseTimersCreated |-> 0,
     destroyed |-> FALSE, nArmed |-> 0, nFired |-> 0]

\* the object as it enters a top-level step: nArmed and nFired count the
\* armings of the delay timer and the assertions of the gate during the step
SpFresh(s) == [s EXCEPT !.nArmed = 0, !.nFired = 0]

(***************************************************************************)
(* Top-level steps of the stirrer: calls from the task domain, the         *)
(* zero-cross interrupt, the two timer callbacks, and the passage of time. *)
(***************************************************************************)
SpOp(op) ==
    [op |-> op, closePair |-> FALSE, prevArmed |-> FALSE, prevBounce |-> FALSE,
     prevSet |-> FALSE, prevRpm |-> 0, prevDelay |-> 0, pulsePending |-> FALSE,
     prevBegun |-> FALSE]

StirrerBegin ==
    /\ ~sp.destroyed
    /\ sp' = SP_begin(SpFresh(sp))
    /\ spLast' = SpOp("begin")
    /\ UNCHANGED <<mainsHz, nowUs, spHist>>
    /\ UNCHANGED thermalVars

StirrerStart ==
    /\ ~sp.destroyed
    /\ sp' = SP_start(SpFresh(sp))
    /\ spLast' = [SpOp("start") EXCEPT !.prevBegun = sp.begun]
    /\ spHist' = [spHist EXCEPT !.edgeValid = FALSE, !.stoppedEarly = FALSE]
    /\ UNCHANGED <<mainsHz, nowUs>>
    /\ UNCHANGED thermalVars

StirrerStop ==
    /\ ~sp.destroyed
    /\ sp' = SP_stop(SpFresh(sp))
    /\ spLast' = SpOp("stop")
    /\ spHist' = [spHist EXCEPT
                    !.edgeValid = FALSE,
                    !.stoppedEarly = \/ @
                                     \/ /\ sp.running
                                        /\ sp.fireScheduled
                                        /\ sp.delayTimer > nowUs]
    /\ UNCHANGED <<mainsHz, nowUs>>
    /\ UNCHANGED thermalVars

SetTargetRPMOf(inputs) ==
    /\ ~sp.destroyed
    /\ \E rpm \in inputs, ub \in UBCastOutcomes :
         sp' = SP_setTargetRPM(SpFresh(sp), rpm, ub)
    /\ spLast' = [SpOp("setTargetRPM") EXCEPT !.prevSet = spHist.rpmSet,
                                              !.prevRpm = sp.targetRpm,
                                              !.prevDelay = sp.delayUs]
    /\ spHist' = [spHist EXCEPT !.rpmSet = TRUE]
    /\ UNCHANGED <<mainsHz, nowUs>>
    /\ UNCHANGED thermalVars

\* setTargetRPM with any float argument
StirrerSetTargetRPM == SetTargetRPMOf(RpmInputs)

\* setTargetRPM with the arguments used where time is modelled
StirrerSetTargetRPMTimed == SetTargetRPMOf(TimedRpmInputs)

\* a zero-cross edge: the GPIO interrupt runs zc_isr_handler (two edges are
\* at least a microsecond apart, and edges are followed up to MaxTimeUs)
ZeroCross ==
    /\ ~sp.destroyed
    /\ sp.isrHandlers > 0
    /\ spHist.edgeAt < nowUs
    /\ nowUs <= MaxTimeUs
    /\ sp' = SP_zc_isr_handler(SpFresh(sp), nowUs)
    /\ spLast' = [SpOp("zc") EXCEPT
                    !.closePair = /\ spHist.edgeValid
                                  /\ sp.running
                                  /\ nowUs - spHist.edgeAt < halfCycleUs \div 3,
                    !.prevArmed = spHist.edgeArmed,
                    !.prevBounce = spHist.edgeBounce]
    /\ spHist' = [spHist EXCEPT !.edgeValid = sp.running,
                                !.edgeAt = nowUs,
                                !.edgeArmed = sp'.nArmed > 0,
                                !.edgeBounce = IsBounce(sp.lastZcUsec, nowUs)]
    /\ UNCHANGED <<mainsHz, nowUs>>
    /\ UNCHANGED thermalVars

\* the delay timer expires: delayTimerCb
DelayTimerExpiry ==
    /\ sp.delayTimer # NotArmed
    /\ sp.delayTimer <= nowUs
    /\ sp' = SP_delayTimerCb([SpFresh(sp) EXCEPT !.delayTimer = NotArmed], nowUs)
    /\ spLast' = [SpOp("delayTimerCb") EXCEPT
                    !.pulsePending = sp.pulseTimer # NotArmed]
    /\ UNCHANGED <<mainsHz, nowUs, spHist>>
    /\ UNCHANGED thermalVars

\* the pulse timer expires: pulseTimerCb
PulseTimerExpiry ==
    /\ sp.pulseTimer # NotArmed
    /\ sp.pulseTimer <= nowUs
    /\ sp' = SP_pulseTimerCb([SpFresh(sp) EXCEPT !.pulseTimer = NotArmed])
    /\ spLast' = SpOp("pulseTimerCb")
    /\ UNCHANGED <<mainsHz, nowUs, spHist>>
    /\ UNCHANGED thermalVars

\* the controller is destroyed
StirrerDestroy ==
    /\ ~sp.destroyed
    /\ sp.begun
    /\ sp' = SP_destroy(SpFresh(sp))
    /\ spLast' = SpOp("destroy")
    /\ spHist' = [spHist EXCEPT !.edgeValid = FALSE]
    /\ UNCHANGED <<mainsHz, nowUs>>
    /\ UNCHANGED thermalVars

\* a zero-cross edge after the destruction: the GPIO interrupt runs the
\* handler that is still registered, on the destroyed instance
ZeroCrossAfterDestroy ==
    /\ sp.destroyed
    /\ sp.isrHandlers > 0
    /\ spHist.edgeAt < nowUs
    /\ sp' \in DanglingOutcomes(SpFresh(sp), nowUs)
    /\ spLast' = SpOp("zcAfterDestroy")
    /\ spHist' = [spHist EXCEPT !.edgeValid = FALSE, !.edgeAt = nowUs]
    /\ UNCHANGED <<mainsHz, nowUs>>
    /\ UNCHANGED thermalVars

(***************************************************************************)
(* heaterTask and stateTask of main.cpp, both created at priority 1 on     *)
(* core 1: the scheduler may switch from one to the other between any two  *)
(* statements.  heaterTask calls heater.update() without stateMutex, so a  *)
(* start() made by stateTask inside modeManager.update() is followed here  *)
(* from its test of fault to its switching of the relay, and an            *)
(* over-temperature update() from its fault = true to its stop().          *)
(***************************************************************************)
TasksIdle == [state |-> "idle", heaterT |-> "idle", cb |-> "idle"]

\* the samples that raise the over-temperature fault
OverTempInputs == {t \in TempInputs : Ge(t, MaxTemp)}

\* the test at the entry of start()
StartAdmits(h) ==
    IF rev = "v2" THEN ~h.fault ELSE ~h.isRunning /\ ~h.fault

\* what start() does once its test has passed
StartSwitches(h) ==
    IF rev = "v2"
    THEN IF ~h.isRunning THEN HE_setRelay(h, TRUE) ELSE h
    ELSE [HE1_setRelay(h, TRUE) EXCEPT !.nOn = @ + 1]

\* stateTask enters heater.start() and evaluates its test
TaskStartTest ==
    /\ hBegun
    /\ tasks.state = "idle"
    /\ heater' = [Fresh(heater) EXCEPT !.nStart = 1]
    /\ tasks' = [tasks EXCEPT !.state = IF StartAdmits(heater) THEN "admitted"
                                        ELSE "idle"]
    /\ last' = Pre("startTest")
    /\ UNCHANGED <<rev, mm, millis, hBegun, faultStopped, faultPending>>
    /\ UNCHANGED stirrerVars

\* stateTask goes on in start() after a test that passed
TaskStartSwitch ==
    /\ tasks.state = "admitted"
    /\ heater' = StartSwitches(heater)
    /\ tasks' = [tasks EXCEPT !.state = "idle"]
    /\ last' = Pre("start")
    /\ UNCHANGED <<rev, mm, millis, hBegun, faultStopped, faultPending>>
    /\ UNCHANGED stirrerVars

\* stateTask calls heater.stop()
TaskStop ==
    /\ tasks.state = "idle"
    /\ HeaterStop

\* stateTask calls heater.setTargetTemperature()
TaskSetTarget ==
    /\ tasks.state = "idle"
    /\ HeaterSetTarget

\* heaterTask: an update() with a sample below maxTemp
TaskUpdate ==
    /\ tasks.heaterT = "idle"
    /\ HeaterUpdateOf(TempInputs \ OverTempInputs, BOOLEAN)

\* heaterTask: an update() with a sample >= maxTemp, up to fault = true
TaskUpdateRaise ==
    /\ hBegun
    /\ tasks.heaterT = "idle"
    /\ \E temp \in OverTempInputs :
         heater' = [Fresh(heater) EXCEPT !.currentTemp = temp, !.fault = TRUE]
    /\ tasks' = [tasks EXCEPT !.heaterT = "raised"]
    /\ last' = Pre("updateRaise")
    /\ UNCHANGED <<rev, mm, millis, hBegun, faultStopped, faultPending>>
    /\ UNCHANGED stirrerVars

\* heaterTask: the rest of that update(): stop(), onFault() and what follows
\* them (the statements before them assign again what they assigned)
TaskUpdateStop ==
    /\ tasks.heaterT = "raised"
    /\ heater' = H_update(heater, heater.currentTemp, FALSE)
    /\ tasks' = [tasks EXCEPT !.heaterT = "idle"]
    /\ last' = Pre("update")
    /\ UNCHANGED <<rev, mm, millis, hBegun, faultStopped, faultPending>>
    /\ UNCHANGED stirrerVars

Min(a, b) == IF a < b THEN a ELSE b

\* esp_timer_get_time() advances, to the next instant of the grid or to the
\* expiry of an armed timer, whichever comes first; a due timer fires first
AdvanceTime ==
    /\ ~(sp.delayTimer # NotArmed /\ sp.delayTimer <= nowUs)
    /\ ~(sp.pulseTimer # NotArmed /\ sp.pulseTimer <= nowUs)
    /\ LET grid == (nowUs \div QuantumUs + 1) * QuantumUs
           t1 == IF sp.delayTimer # NotArmed THEN Min(grid, sp.delayTimer) ELSE grid
           t2 == IF sp.pulseTimer # NotArmed THEN Min(t1, sp.pulseTimer) ELSE t1
       IN  /\ t2 <= MaxTimeUs
           /\ nowUs' = t2
    /\ UNCHANGED <<mainsHz, sp, spLast, spHist>>
    /\ UNCHANGED thermalVars

\* past MaxTimeUs the clock still runs on to the expiry of the timers that
\* were armed before: an armed esp_timer expires whatever happens afterwards
DrainTimers ==
    /\ ~(sp.delayTimer # NotArmed /\ sp.delayTimer <= nowUs)
    /\ ~(sp.pulseTimer # NotArmed /\ sp.pulseTimer <= nowUs)
    /\ sp.delayTimer # NotArmed \/ sp.pulseTimer # NotArmed
    /\ (nowUs \div QuantumUs + 1) * QuantumUs > MaxTimeUs
    /\ LET t == IF sp.delayTimer = NotArmed THEN sp.pulseTimer
                ELSE IF sp.pulseTimer = NotArmed THEN sp.delayTimer
                ELSE Min(sp.delayTimer, sp.pulseTimer)
       IN  /\ t > MaxTimeUs
           /\ nowUs' = t
    /\ UNCHANGED <<mainsHz, sp, spLast, spHist>>
    /\ UNCHANGED thermalVars

(***************************************************************************)
(* delayTimerCb statement by statement.  esp_timer dispatches callbacks    *)
(* from its task, which the GPIO interrupt of the zero-cross input         *)
(* preempts: zc_isr_handler runs as a whole between any two statements of  *)
(* the callback.  The pulse callback is dispatched from the same task, and *)
(* the callback takes no time on the clock.                                *)
(***************************************************************************)
\* the delay timer expires: delayTimerCb up to esp_timer_start_once(pulseTimer)
DelayCbFire ==
    /\ tasks.cb = "idle"
    /\ sp.delayTimer # NotArmed
    /\ sp.delayTimer <= nowUs
    /\ sp' = [SP_delayTimerCb([SpFresh(sp) EXCEPT !.delayTimer = NotArmed], nowUs)
                EXCEPT !.fireScheduled = sp.fireScheduled]
    /\ tasks' = [tasks EXCEPT !.cb = IF sp.fireScheduled THEN "fired" ELSE "idle"]
    /\ spLast' = [SpOp("delayTimerCb") EXCEPT
                    !.pulsePending = sp.pulseTimer # NotArmed]
    /\ UNCHANGED <<mainsHz, nowUs, spHist>>
    /\ UNCHANGED <<rev, heater, mm, millis, hBegun, last, faultStopped, faultPending>>

\* the last statement of delayTimerCb: fireScheduled.store(false)
DelayCbClear ==
    /\ tasks.cb = "fired"
    /\ sp' = [SpFresh(sp) EXCEPT !.fireScheduled = FALSE]
    /\ tasks' = [tasks EXCEPT !.cb = "idle"]
    /\ spLast' = SpOp("delayTimerCbEnd")
    /\ UNCHANGED <<mainsHz, nowUs, spHist>>
    /\ UNCHANGED <<rev, heater, mm, millis, hBegun, last, faultStopped, faultPending>>

\* the pulse timer's callback, once the esp_timer task is out of delayTimerCb
PulseAfterCb ==
    /\ tasks.cb = "idle"
    /\ PulseTimerExpiry

\* the clock advances while no callback is under way
AdvanceTimeIdle ==
    /\ tasks.cb = "idle"
    /\ AdvanceTime

Init ==
    /\ rev \in {"v2", "legacy"}
    /\ heater = HeaterInit(rev)
    /\ mm = ModeManagerInit
    /\ millis = 0
    /\ hBegun = FALSE
    /\ last = [op |-> "init", wasRunning |-> FALSE, wasFault |-> FALSE,
               updMode |-> "NONE", updDue |-> FALSE, sensorFault |-> FALSE,
               target |-> 0, tolerance |-> 0, seconds |-> 0]
    /\ faultStopped = FALSE
    /\ faultPending = FALSE
    /\ tasks = TasksIdle
    /\ mainsHz \in {50, 60}
    /\ sp = StirrerInitObject
    /\ nowUs = QuantumUs
    /\ spLast = SpOp("init")
    /\ spHist = [edgeValid |-> FALSE, edgeAt |-> 0, edgeArmed |-> FALSE,
                 edgeBounce |-> FALSE, rpmSet |-> FALSE,
                 stoppedEarly |-> FALSE]

\* the thermal loop and the mode manager, the stirrer left as constructed
InitThermal ==
    /\ rev \in {"v2", "legacy"}
    /\ heater = HeaterInit(rev)
    /\ mm = ModeManagerInit
    /\ millis = 0
    /\ hBegun = FALSE
    /\ last = [op |-> "init", wasRunning |-> FALSE, wasFault |-> FALSE,
               updMode |-> "NONE", updDue |-> FALSE, sensorFault |-> FALSE,
               target |-> 0, tolerance |-> 0, seconds |-> 0]
    /\ faultStopped = FALSE
    /\ faultPending = FALSE
    /\ tasks = TasksIdle
    /\ mainsHz = 50
    /\ sp = StirrerInitObject
    /\ nowUs = QuantumUs
    /\ spLast = SpOp("init")
    /\ spHist = [edgeValid |-> FALSE, edgeAt |-> 0, edgeArmed |-> FALSE,
                 edgeBounce |-> FALSE, rpmSet |-> FALSE,
                 stoppedEarly |-> FALSE]

\* the thermal loop and the mode manager with millis() about to wrap around
InitLateClock ==
    /\ rev \in {"v2", "legacy"}
    /\ heater = HeaterInit(rev)
    /\ mm = ModeManagerInit
    /\ millis = ClockStart
    /\ hBegun = FALSE
    /\ last = [op |-> "init", wasRunning |-> FALSE, wasFault |-> FALSE,
               updMode |-> "NONE", updDue |-> FALSE, sensorFault |-> FALSE,
               target |-> 0, tolerance |-> 0, seconds |-> 0]
    /\ faultStopped = FALSE
    /\ faultPending = FALSE
    /\ tasks = TasksIdle
    /\ mainsHz = 50
    /\ sp = StirrerInitObject
    /\ nowUs = QuantumUs
    /\ spLast = SpOp("init")
    /\ spHist = [edgeValid |-> FALSE, edgeAt |-> 0, edgeArmed |-> FALSE,
                 edgeBounce |-> FALSE, rpmSet |-> FALSE,
                 stoppedEarly |-> FALSE]

\* the stirrer at 50 and at 60 Hz, the thermal loop left as constructed
InitStirrer ==
    /\ rev = "v2"
    /\ heater = HeaterInit(rev)
    /\ mm = ModeManagerInit
    /\ millis = 0
    /\ hBegun = FALSE
    /\ last = [op |-> "init", wasRunning |-> FALSE, wasFault |-> FALSE,
               updMode |-> "NONE", updDue |-> FALSE, sensorFault |-> FALSE,
               target |-> 0, tolerance |-> 0, seconds |-> 0]
    /\ faultStopped = FALSE
    /\ faultPending = FALSE
    /\ tasks = TasksIdle
    /\ mainsHz \in {50, 60}
    /\ sp = StirrerInitObject
    /\ nowUs = QuantumUs
    /\ spLast = SpOp("init")
    /\ spHist = [edgeValid |-> FALSE, edgeAt |-> 0, edgeArmed |-> FALSE,
                 edgeBounce |-> FALSE, rpmSet |-> FALSE,
                 stoppedEarly |-> FALSE]

\* the thermal loop alone, under any sequence of calls of its public operations
NextLoop ==
    \/ HeaterBegin
    \/ HeaterUpdate
    \/ HeaterStart
    \/ HeaterStop
    \/ HeaterSetTarget
    \/ HeaterClearTarget

\* the thermal loop as main.cpp wires it: heaterTask calls heater.update(),
\* stateTask calls modeManager.update(), the operator-facing layer calls the
\* mode setters
NextMode ==
    \/ HeaterBegin
    \/ HeaterUpdate
    \/ ModeSetOff
    \/ ModeSetRamp
    \/ ModeSetHold
    \/ ModeSetTimer
    \/ ModeUpdate
    \/ Tick

\* the same wiring, with the samples the mode manager's branches tell apart
NextManager ==
    \/ HeaterBegin
    \/ HeaterSample
    \/ ModeSetOff
    \/ ModeSetRamp
    \/ ModeSetHold
    \/ ModeSetTimer
    \/ ModeUpdate
    \/ Tick

\* the RPM-to-delay mapping: the control calls of the stirrer, no time
NextRpm ==
    \/ StirrerBegin
    \/ StirrerStart
    \/ StirrerStop
    \/ StirrerSetTargetRPM

\* the stirrer controller in time: task-domain calls, the zero-cross
\* interrupt, the timer callbacks
NextStirrer ==
    \/ StirrerBegin
    \/ StirrerStart
    \/ StirrerStop
    \/ StirrerSetTargetRPMTimed
    \/ ZeroCross
    \/ DelayTimerExpiry
    \/ PulseTimerExpiry
    \/ AdvanceTime

\* the life of a stirrer controller up to and after its destruction
NextLifecycle ==
    \/ StirrerBegin
    \/ StirrerStart
    \/ StirrerSetTargetRPMTimed
    \/ ZeroCross
    \/ DelayTimerExpiry
    \/ PulseTimerExpiry
    \/ AdvanceTime
    \/ StirrerDestroy
    \/ ZeroCrossAfterDestroy

\* the mode manager on a clock that wraps around, with any durationSeconds
NextClock ==
    \/ HeaterBegin
    \/ HeaterSample
    \/ ModeSetOff
    \/ ModeSetRampAny
    \/ ModeSetTimerAny
    \/ ModeUpdate
    \/ TickAround

\* heaterTask and stateTask interleaved statement by statement
NextTasks ==
    \/ HeaterBegin
    \/ TaskStartTest
    \/ TaskStartSwitch
    \/ TaskStop
    \/ TaskSetTarget
    \/ TaskUpdate
    \/ TaskUpdateRaise
    \/ TaskUpdateStop

\* the stirrer with the zero-cross interrupt preempting delayTimerCb
NextIsr ==
    \/ StirrerBegin
    \/ StirrerStart
    \/ StirrerStop
    \/ StirrerSetTargetRPMTimed
    \/ ZeroCross
    \/ DelayCbFire
    \/ DelayCbClear
    \/ PulseAfterCb
    \/ AdvanceTimeIdle

\* the stirrer with the timers followed to their expiry
NextFair ==
    \/ StirrerBegin
    \/ StirrerStart
    \/ StirrerStop
    \/ StirrerSetTargetRPMTimed
    \/ ZeroCross
    \/ DelayTimerExpiry
    \/ PulseTimerExpiry
    \/ AdvanceTime
    \/ DrainTimers

Next == NextLoop \/ NextMode \/ NextManager \/ NextRpm \/ NextStirrer
            \/ NextLifecycle \/ NextFair \/ NextTasks \/ NextIsr
            \/ NextClock

Spec == Init /\ [][Next]_vars

SpecLoop == InitThermal /\ [][NextLoop]_vars

SpecMode == InitThermal /\ [][NextMode]_vars

SpecManager == InitThermal /\ [][NextManager]_vars

SpecRpm == InitStirrer /\ [][NextRpm]_vars

SpecStirrer == InitStirrer /\ [][NextStirrer]_vars

SpecLifecycle == InitStirrer /\ [][NextLifecycle]_vars

SpecTasks == InitThermal /\ [][NextTasks]_vars

SpecIsr == InitStirrer /\ [][NextIsr]_vars

SpecClock == InitLateClock /\ [][NextClock]_vars

\* esp_timer dispatches the callback of every timer that is due, and
\* esp_timer_get_time() keeps advancing
SpecFair ==
    /\ InitStirrer
    /\ [][NextFair]_vars
    /\ WF_vars(AdvanceTime)
    /\ WF_vars(DrainTimers)
    /\ WF_vars(DelayTimerExpiry)
    /\ WF_vars(PulseTimerExpiry)


(***************************************************************************)
(* Properties of the thermal loop.                                         *)
(***************************************************************************)
\* C1: after any sequence of start(), stop(), setTargetTemperature() and
\* update() calls the relay is on only in states where fault is false.
C1_RelayOnOnlyWithoutFault == heater.isRunning => ~heater.fault

\* start() was called with the fault flag set and was refused
C1_StartRefusedUnderFault ==
    /\ last.op = "start"
    /\ last.wasFault
    /\ heater.fault
    /\ ~heater.isRunning

\* C2: when an update() that took a sample with temp >= maxTemp returns, the
\* relay is off and the fault flag is set, whatever the state before the call.
C2_OverTempFailSafe ==
    (last.op = "update" /\ Ge(heater.currentTemp, MaxTemp))
        => (~heater.isRunning /\ heater.fault)

\* an over-temperature sample arrived with the relay on, no fault, a target set
C2_OverTempWhileHeating ==
    /\ last.op = "update"
    /\ Ge(heater.currentTemp, MaxTemp)
    /\ last.wasRunning
    /\ ~last.wasFault
    /\ heater.targetTempSet
    /\ heater.nFault > 0
    /\ heater.nOff > 0

\* C4 as stated: with a target set, a sample switches the relay off only when
\* temp >= target + tolerance and switches it on only when
\* temp < target - tolerance.
C4_HysteresisOnly ==
    (last.op = "update" /\ heater.targetTempSet)
        => /\ (last.wasRunning /\ ~heater.isRunning)
                => Ge(heater.currentTemp,
                      FAdd(heater.targetTemp, heater.targetTolerance))
           /\ (~last.wasRunning /\ heater.isRunning)
                => Lt(heater.currentTemp,
                      FSub(heater.targetTemp, heater.targetTolerance))

\* C4: with a target set, a sample switches the relay off only when
\* temp >= target + tolerance or when the update raises a fault, and switches
\* it on only when temp < target - tolerance.
C4_HysteresisOrFault ==
    (last.op = "update" /\ heater.targetTempSet)
        => /\ (last.wasRunning /\ ~heater.isRunning)
                => \/ Ge(heater.currentTemp,
                         FAdd(heater.targetTemp, heater.targetTolerance))
                   \/ heater.nFault > 0
           /\ (~last.wasRunning /\ heater.isRunning)
                => Lt(heater.currentTemp,
                      FSub(heater.targetTemp, heater.targetTolerance))

\* a sample inside the band left the relay on, as in "still on at 49.6"
C4_StillOnInsideBand ==
    /\ last.op = "update"
    /\ heater.targetTempSet
    /\ last.wasRunning
    /\ heater.isRunning
    /\ Ge(heater.currentTemp, FSub(heater.targetTemp, heater.targetTolerance))
    /\ Lt(heater.currentTemp, FAdd(heater.targetTemp, heater.targetTolerance))

\* C5: after a fault has forced the relay off, the relay stays off until an
\* explicit start() or a mode setter is called.
C5_NoResumeWithoutStart == faultStopped => ~heater.isRunning

\* C10: a fault raised while the mode is Ramp, Hold or Timer stays visible to
\* the mode manager until its update() has switched the mode to Off and
\* invoked the fault callback: no such fault is cleared before.
C10_FaultReachesModeManager == faultPending => heater.fault

(***************************************************************************)
(* Properties of the stirrer.                                              *)
(***************************************************************************)
\* C3: when stop() was called with the delay timer armed and not yet
\* expired, the gate is not asserted before the next start().
C3_NoGateAfterStop == spHist.stoppedEarly => sp.nFired = 0

\* C6 as stated: the stored firing delay is strictly less than
\* halfCycleUs - 200 in every reachable state.
C6_DelayStrictlyBelowMargin == sp.delayUs < halfCycleUs - SafetyMarginUs

\* C6: the stored firing delay is at most halfCycleUs - 200 in every
\* reachable state, at 50 and at 60 Hz.
C6_DelayWithinMargin == sp.delayUs <= halfCycleUs - SafetyMarginUs

\* setTargetRPM stored a delay that the clamp cut to the margin
C6_DelayAtMargin ==
    /\ spLast.op = "setTargetRPM"
    /\ sp.targetRpm = 0
    /\ sp.delayUs = halfCycleUs - SafetyMarginUs

\* C7: for targets rpm1 <= rpm2 the delay stored by setTargetRPM(rpm2) is at
\* most the one stored by setTargetRPM(rpm1), and no stored delay exceeds
\* halfCycleUs - 200.
C7_DelayMonotone ==
    (spLast.op = "setTargetRPM") =>
        /\ sp.delayUs <= halfCycleUs - SafetyMarginUs
        /\ (spLast.prevSet /\ Le(spLast.prevRpm, sp.targetRpm))
                => sp.delayUs <= spLast.prevDelay
        /\ (spLast.prevSet /\ Le(sp.targetRpm, spLast.prevRpm))
                => spLast.prevDelay <= sp.delayUs

\* a higher target was stored after a lower one and the delay went down
C7_HigherRpmShorterDelay ==
    /\ spLast.op = "setTargetRPM"
    /\ spLast.prevSet
    /\ Lt(spLast.prevRpm, sp.targetRpm)
    /\ sp.delayUs < spLast.prevDelay

\* C8: fireScheduled is true only while the delay timer is armed, and it is
\* false when stop() returns.
C8_FireScheduledOnlyWhileArmed ==
    /\ sp.fireScheduled => sp.delayTimer # NotArmed
    /\ spLast.op = "stop" => ~sp.fireScheduled

C11_FaultPreemptsMode ==
    (last.op = "mmUpdate" /\ last.wasFault)
        => /\ mm.nFault = 1
           /\ mm.mode = "OFF"
           /\ ~heater.isRunning
           /\ heater.nSetTarget = 0
           /\ heater.nStart = 0
           /\ mm.nComplete = 0

\* an update() under a fault in Timer mode, the timer's duration elapsed
C11_FaultAfterTimerElapsed ==
    /\ last.op = "mmUpdate"
    /\ last.wasFault
    /\ last.updMode = "TIMER"
    /\ last.updDue
    /\ mm.nFault = 1
    /\ mm.mode = "OFF"

\* C12: after setTimer(durationSeconds, ...) (durationSeconds * 1000 within
\* unsigned long) and absent a fault, an update() in Timer mode invokes the
\* completion callback not at all and stays in Timer mode while
\* elapsed < durationSeconds * 1000 ms, invokes it exactly once and leaves the
\* mode Off at the first update() with elapsed >= durationSeconds * 1000 ms,
\* and an update() in Off mode never invokes it.
C12_TimerCompletesOnceWhenDue ==
    [][/\ (ModeUpdate /\ mm.mode = "TIMER" /\ ~heater.fault)
           => /\ mm.timerDuration
                    \in {durationSeconds * UnitsPerSecond :
                            durationSeconds \in DurationInputs}
              /\ IF U32(millis - mm.timerStartTime) >= mm.timerDuration
                 THEN mm'.nComplete = 1 /\ mm'.mode = "OFF"
                 ELSE mm'.nComplete = 0 /\ mm'.mode = "TIMER"
       /\ (ModeUpdate /\ mm.mode = "OFF") => mm'.nComplete = 0]_vars

\* the update() that completes the timer
C12_TimerCompleted ==
    /\ last.op = "mmUpdate"
    /\ last.updMode = "TIMER"
    /\ last.updDue
    /\ ~last.wasFault
    /\ mm.nComplete = 1
    /\ mm.mode = "OFF"

\* C13: in Ramp mode, absent a fault, the first update() with
\* elapsed >= duration sets the thermal loop's target to the ramp's end
\* temperature, invokes the completion callback exactly once and leaves the
\* mode Off; an update() in Off mode, as every later one is, does not invoke
\* the completion callback.
C13_RampCompletesOnceAtEnd ==
    /\ (last.op = "mmUpdate" /\ last.updMode = "RAMP" /\ last.updDue
           /\ ~last.wasFault)
           => /\ heater.nSetTarget = 1
              /\ heater.targetTemp = mm.rampEndTemp
              /\ mm.nComplete = 1
              /\ mm.mode = "OFF"
    /\ (last.op = "mmUpdate" /\ last.updMode = "OFF")
           => mm.nComplete = 0 /\ mm.mode = "OFF"

\* the update() that completes the ramp
C13_RampCompleted ==
    /\ last.op = "mmUpdate"
    /\ last.updMode = "RAMP"
    /\ last.updDue
    /\ ~last.wasFault
    /\ heater.targetTemp = mm.rampEndTemp
    /\ mm.rampEndTemp # mm.rampStartTemp
    /\ mm.nComplete = 1

\* C14: every update() in Ramp mode with elapsed < duration (and no fault)
\* sets the thermal loop's target to start + (end - start) * elapsed /
\* duration, a value between start and end that is start at elapsed = 0, and
\* the thermal loop is running when the call returns.
C14_RampInterpolates ==
    [][(ModeUpdate /\ mm.mode = "RAMP" /\ ~heater.fault
          /\ U32(millis - mm.rampStartTime) < mm.rampDuration)
          => LET elapsed == U32(millis - mm.rampStartTime)
                 target == mm.rampStartTemp
                           + ((mm.rampEndTemp - mm.rampStartTemp) * elapsed)
                             \div mm.rampDuration
             IN  /\ heater'.nSetTarget = 1
                 /\ heater'.targetTempSet
                 /\ heater'.targetTemp = target
                 /\ \/ mm.rampStartTemp <= target /\ target <= mm.rampEndTemp
                    \/ mm.rampEndTemp <= target /\ target <= mm.rampStartTemp
                 /\ elapsed = 0 => heater'.targetTemp = mm.rampStartTemp
                 /\ heater'.isRunning
                 /\ mm'.mode = "RAMP"]_vars

\* an update() part-way through a ramp: the target strictly between start
\* and end, the relay on
C14_RampUnderWay ==
    /\ last.op = "mmUpdate"
    /\ last.updMode = "RAMP"
    /\ ~last.updDue
    /\ ~last.wasFault
    /\ mm.rampStartTemp < heater.targetTemp
    /\ heater.targetTemp < mm.rampEndTemp
    /\ heater.targetTempSet
    /\ heater.isRunning

\* C15: the mode is Off initially; update() leaves the mode as it is or makes
\* it Off, and makes it Off only when the thermal loop reports a fault or
\* the duration of the active Ramp or Timer has elapsed: update() leaves
\* Hold only on a fault, and never leaves Off.
C15_UpdateOnlyForcesOff ==
    /\ last.op = "init" => mm.mode = "OFF"
    /\ last.op = "mmUpdate"
          => \/ mm.mode = last.updMode
             \/ /\ mm.mode = "OFF"
                /\ \/ last.wasFault
                   \/ last.updMode \in {"RAMP", "TIMER"} /\ last.updDue
    /\ (last.op = "mmUpdate" /\ last.updMode = "HOLD" /\ ~last.wasFault)
          => mm.mode = "HOLD"
    /\ (last.op = "mmUpdate" /\ last.updMode = "OFF") => mm.mode = "OFF"

\* an update() in Hold mode with the temperature above the hold target: the
\* mode stays Hold
C15_HoldKeptAtTarget ==
    /\ last.op = "mmUpdate"
    /\ last.updMode = "HOLD"
    /\ ~last.wasFault
    /\ Ge(heater.currentTemp, heater.targetTemp)
    /\ heater.targetTempSet
    /\ mm.mode = "HOLD"

\* C16: start() while fault is true is a no-op: the relay stays off,
\* isRunning stays false, the heater-on callback is not invoked, and the
\* target, the tolerance, the target-reached latch and the fault flag are
\* as they were.
C16_StartUnderFaultIsNoOp ==
    [][(HeaterStart /\ heater.fault)
          => /\ ~heater.relayPin /\ ~heater'.relayPin
             /\ ~heater.isRunning /\ ~heater'.isRunning
             /\ heater'.nOn = 0
             /\ heater'.targetTemp = heater.targetTemp
             /\ heater'.targetTolerance = heater.targetTolerance
             /\ heater'.targetTempSet = heater.targetTempSet
             /\ heater'.targetReachedTriggered = heater.targetReachedTriggered
             /\ heater'.currentTemp = heater.currentTemp
             /\ heater'.fault]_vars

\* start() was called under a fault with a target set and did nothing
C16_StartIgnoredWithTargetSet ==
    /\ last.op = "start"
    /\ last.wasFault
    /\ heater.nStart = 1
    /\ heater.nOn = 0
    /\ heater.targetTempSet
    /\ heater.fault
    /\ ~heater.relayPin

\* C17: an update() whose sample is invalid (NaN, below -50.0 or above
\* 500.0 degrees) or at which the sensor reports a fault code returns with
\* the relay off and fault set, has invoked the fault callback, and has not
\* run the bang-bang step: no heater-on and no target-reached callback.
C17_InvalidSampleFailSafe ==
    (/\ last.op = "update"
     /\ \/ last.sensorFault
        \/ isnan(heater.currentTemp)
        \/ Lt(heater.currentTemp, MinValidTemp)
        \/ Gt(heater.currentTemp, MaxValidTemp))
        => /\ ~heater.isRunning
           /\ ~heater.relayPin
           /\ heater.fault
           /\ heater.nFault = 1
           /\ heater.nOn = 0
           /\ heater.nReached = 0

\* C18: with the target fixed, an update() invokes the target-reached
\* callback only on a sample with the relay running, no fault, the target
\* set and temp >= target - tolerance, only with the latch clear before, and
\* it sets the latch; an update() clears a set latch only on a sample with
\* temp < target - tolerance.  So the callback is invoked at most once
\* between two samples below target - tolerance.
C18_TargetReachedLatched ==
    [][/\ (HeaterUpdate /\ heater'.nReached > 0)
           => /\ heater'.nReached = 1
              /\ heater'.isRunning
              /\ ~heater'.fault
              /\ heater'.targetTempSet
              /\ Ge(heater'.currentTemp,
                    FSub(heater.targetTemp, heater.targetTolerance))
              /\ ~heater.targetReachedTriggered
              /\ heater'.targetReachedTriggered
       /\ (HeaterUpdate /\ heater.targetReachedTriggered
              /\ ~heater'.targetReachedTriggered)
           => Lt(heater'.currentTemp,
                 FSub(heater.targetTemp, heater.targetTolerance))
       /\ HeaterUpdate
           => /\ heater'.targetTemp = heater.targetTemp
              /\ heater'.targetTolerance = heater.targetTolerance]_vars

\* a sample inside the band with the latch already set: no second callback
C18_NoSecondCallbackInBand ==
    /\ last.op = "update"
    /\ heater.isRunning
    /\ heater.targetTempSet
    /\ heater.targetReachedTriggered
    /\ Ge(heater.currentTemp, FSub(heater.targetTemp, heater.targetTolerance))
    /\ heater.nReached = 0
    /\ last.wasRunning

\* C19: one update() invokes each of the callbacks (temperature changed,
\* fault, heater on, heater off, target reached) at most once, whatever the
\* state before the call and whatever the sample.
C19_EachCallbackAtMostOnce ==
    last.op = "update"
        => /\ heater.nChanged <= 1
           /\ heater.nFault <= 1
           /\ heater.nOn <= 1
           /\ heater.nOff <= 1
           /\ heater.nReached <= 1

\* C20: once a begun stirrer controller is destroyed, both timers are
\* stopped and the zero-cross handler is deregistered, and no zero-cross
\* edge and no timer expiry runs a handler on the destroyed instance.
C20_NoHandlerAfterDestroy ==
    sp.destroyed
        => /\ sp.delayTimer = NotArmed
           /\ sp.pulseTimer = NotArmed
           /\ sp.isrHandlers = 0
           /\ spLast.op \notin {"zcAfterDestroy", "delayTimerCb", "pulseTimerCb"}

(***************************************************************************)
(* Properties of the stirrer controller's interface.                       *)
(***************************************************************************)
\* C21: a second begin() is a no-op: the zero-cross handler is registered
\* exactly once, exactly one delay timer and one pulse timer exist, and the
\* gate pin, the running flag, the firing delay and the timers are as they
\* were before the call.
C21_SecondBeginIsNoOp ==
    [][(StirrerBegin /\ sp.begun)
          => /\ sp'.isrHandlers = 1
             /\ sp'.delayTimersCreated = 1
             /\ sp'.pulseTimersCreated = 1
             /\ sp'.moc = sp.moc
             /\ sp'.running = sp.running
             /\ sp'.delayUs = sp.delayUs
             /\ sp'.targetRpm = sp.targetRpm
             /\ sp'.fireScheduled = sp.fireScheduled
             /\ sp'.lastZcUsec = sp.lastZcUsec
             /\ sp'.delayTimer = sp.delayTimer
             /\ sp'.pulseTimer = sp.pulseTimer]_vars

\* begin() called again while running with the gate asserted
C21_BegunAgainWhileFiring ==
    /\ spLast.op = "begin"
    /\ sp.running
    /\ sp.moc = 1
    /\ sp.pulseTimer # NotArmed
    /\ sp.isrHandlers = 1

\* C22: the firing delay of a half-cycle is the stored delay read at that
\* half-cycle's accepted zero-cross edge.  An accepted edge arms the delay
\* timer for the edge's time plus the delay stored then (the one the last
\* setTargetRPM() left); a setTargetRPM() leaves an armed delay timer and
\* fireScheduled as they are; the gate fires when the timer armed at the
\* edge expires.
C22_DelayLatchedAtEdge ==
    [][/\ (ZeroCross /\ sp'.nArmed > 0)
           => /\ sp'.delayTimer = nowUs + sp.delayUs
              /\ sp'.delayUs = sp.delayUs
       /\ StirrerSetTargetRPMTimed
           => /\ sp'.delayTimer = sp.delayTimer
              /\ sp'.pulseTimer = sp.pulseTimer
              /\ sp'.fireScheduled = sp.fireScheduled
              /\ sp'.moc = sp.moc
       /\ (DelayTimerExpiry /\ sp'.nFired > 0)
           => nowUs = sp.delayTimer]_vars

\* setTargetRPM() has changed the stored delay between an accepted edge and
\* the expiry of the delay timer, which still stands at the edge's time plus
\* the delay stored before
C22_DelayChangedMidCycle ==
    /\ spLast.op = "setTargetRPM"
    /\ sp.running
    /\ sp.fireScheduled
    /\ sp.delayTimer > nowUs
    /\ sp.delayUs # spLast.prevDelay
    /\ sp.delayTimer = sp.lastZcUsec + spLast.prevDelay

\* C23: when a stop() returns the gate output is de-asserted, whatever the
\* running flag and the timers were when it was called.
C23_GateLowWhenStopReturns == spLast.op = "stop" => sp.moc = 0

\* C24: for every rpm that is a number, setTargetRPM stores
\* delay = min(trunc((1 - x^2) * halfCycleUs), halfCycleUs - 200), where
\* percent = rpm / maxRpm * 100 clamped to [minPercent, maxPercent] and
\* x = (percent - minPercent) / (maxPercent - minPercent); at 50 Hz,
\* rpm = 1500 (percent 50, x = 1/2) gives 7500 microseconds.
C24_DelayFollowsMapping ==
    (spLast.op = "setTargetRPM" /\ ~isnan(sp.targetRpm))
        => LET lo   == minPercent * maxRpm
               hi   == maxPercent * maxRpm
               raw  == sp.targetRpm * 100
               pn   == IF raw < lo THEN lo ELSE IF raw > hi THEN hi ELSE raw
               g    == Gcd(pn - lo, hi - lo)
               a    == (pn - lo) \div g
               b    == (hi - lo) \div g
               full == ((b * b - a * a) * halfCycleUs) \div (b * b)
               cap  == halfCycleUs - 200
           IN  /\ sp.delayUs = IF full < cap THEN full ELSE cap
               /\ (mainsHz = 50 /\ sp.targetRpm = 1500) => sp.delayUs = 7500

\* setTargetRPM(2400): percent 80, x = 5/6, a delay that is truncated and
\* below the margin
C24_TruncatedDelayStored ==
    /\ spLast.op = "setTargetRPM"
    /\ sp.targetRpm = 2400
    /\ sp.delayUs = IF mainsHz = 50 THEN 3055 ELSE 2546

(***************************************************************************)
(* Properties of the mode manager's setters and of its Hold and Off modes. *)
(***************************************************************************)
\* C25: after a setter has switched the mode no parameter of the previous
\* mode stays in effect: when setTimer() with useTemp = false returns, no
\* target of an earlier Hold or Ramp is set in the thermal loop.
C25_NoStaleTargetAfterSetter ==
    (last.op = "setTimer" /\ ~mm.timerUseTemp) => ~heater.targetTempSet

\* C26: in Hold mode (and with no fault) a mode-manager update() never
\* stops the relay and never changes the target, and it calls start() only
\* when the loop is not running and currentTemp < target - 1.0.
C26_HoldUpdateOnlyRestarts ==
    (last.op = "mmUpdate" /\ last.updMode = "HOLD" /\ ~last.wasFault)
        => /\ heater.nOff = 0
           /\ last.wasRunning => heater.isRunning
           /\ heater.nSetTarget = 0
           /\ heater.nStart > 0
                 => /\ ~last.wasRunning
                    /\ Lt(heater.currentTemp,
                          FSub(heater.targetTemp, HOLD_HYSTERESIS))

\* C27: in Off mode and with no fault, when a mode-manager update() returns
\* the thermal loop is stopped, and the call has done nothing else: the mode
\* is Off, the manager's fields are as they were, no completion and no fault
\* callback was invoked, and the call made no setTargetTemperature() and no
\* start(): target, tolerance, latch, temperature and fault are unchanged.
C27_OffUpdateOnlyStops ==
    [][(ModeUpdate /\ mm.mode = "OFF" /\ ~heater.fault)
          => /\ ~heater'.isRunning
             /\ ~heater'.relayPin
             /\ mm' = FreshM(mm)
             /\ mm'.mode = "OFF"
             /\ heater'.nSetTarget = 0
             /\ heater'.nStart = 0
             /\ heater'.nOn = 0
             /\ heater'.nFault = 0
             /\ heater'.targetTemp = heater.targetTemp
             /\ heater'.targetTolerance = heater.targetTolerance
             /\ heater'.targetTempSet = heater.targetTempSet
             /\ heater'.targetReachedTriggered = heater.targetReachedTriggered
             /\ heater'.currentTemp = heater.currentTemp
             /\ ~heater'.fault]_vars

\* an update() in Off mode found the relay on and switched it off
C27_OffUpdateStoppedHeater ==
    /\ last.op = "mmUpdate"
    /\ last.updMode = "OFF"
    /\ ~last.wasFault
    /\ last.wasRunning
    /\ ~heater.isRunning
    /\ heater.nOff >= 1
    /\ mm.mode = "OFF"

(***************************************************************************)
(* Further properties of the thermal loop.                                 *)
(***************************************************************************)
\* C28: setTargetTemperature(target, tolerance) stores target and
\* tolerance, marks the target as set and clears the target-reached latch,
\* for any target value, and changes nothing else: relay, running flag,
\* fault flag and current temperature are as before, no callback is invoked.
C28_SetTargetFrame ==
    [][HeaterSetTarget
          => heater' = [Fresh(heater) EXCEPT
                          !.targetTemp = last'.target,
                          !.targetTolerance = last'.tolerance,
                          !.targetTempSet = TRUE,
                          !.targetReachedTriggered = FALSE,
                          !.nSetTarget = 1]]_vars

\* setTargetTemperature() called with the relay on and the temperature in
\* the band of the new target: the latch is clear, the relay still on
C28_TargetSetWhileHeating ==
    /\ last.op = "setTarget"
    /\ last.wasRunning
    /\ heater.isRunning
    /\ heater.targetTemp = last.target
    /\ heater.targetTolerance = last.tolerance
    /\ heater.targetTempSet
    /\ Ge(heater.currentTemp, FSub(heater.targetTemp, heater.targetTolerance))
    /\ ~heater.targetReachedTriggered

\* C29: an update() that processes a sample with temp >= maxTemp stops after
\* the fault step: the fault callback is invoked, the relay is off, and
\* neither the bang-bang step nor the target-reached step runs: no heater-on
\* callback, no target-reached callback, the latch as it was.
C29_OverTempSkipsControl ==
    [][(/\ HeaterUpdate
        /\ rev = "legacy" \/ ~last'.sensorFault
        /\ Ge(heater'.currentTemp, MaxTemp))
          => /\ heater'.fault
             /\ heater'.nFault = 1
             /\ ~heater'.isRunning
             /\ heater'.nOn = 0
             /\ heater'.nReached = 0
             /\ heater'.targetReachedTriggered = heater.targetReachedTriggered]_vars

\* an over-temperature sample taken with the relay on and the latch clear,
\* at or above the lower edge of the band: the target-reached step, had it
\* run first, would have fired
C29_OverTempAtTarget ==
    /\ last.op = "update"
    /\ last.wasRunning
    /\ ~last.sensorFault
    /\ Ge(heater.currentTemp, MaxTemp)
    /\ heater.targetTempSet
    /\ Ge(heater.currentTemp, FSub(heater.targetTemp, heater.targetTolerance))
    /\ ~heater.targetReachedTriggered
    /\ heater.nFault = 1
    /\ heater.nReached = 0

\* C30: a zero-cross edge discarded as a bounce leaves lastZcUsec as it was,
\* so that the debounce window is measured from the last accepted edge.
C30_BounceKeepsTimestamp ==
    [][(ZeroCross /\ IsBounce(sp.lastZcUsec, nowUs))
          => sp'.lastZcUsec = sp.lastZcUsec]_vars

\* C31: every assertion of the gate by delayTimerCb is eventually followed by
\* a pulseTimerCb that leaves the gate de-asserted, also when the delay timer
\* expires again while the pulse timer of the previous firing is still armed.
C31_GateEventuallyLow ==
    (spLast.op = "delayTimerCb" /\ sp.nFired > 0)
        ~> (spLast.op = "pulseTimerCb" /\ sp.moc = 0)

\* delayTimerCb has asserted the gate while the pulse timer of the previous
\* firing was still armed: its expiry is earlier than a full pulse from now
C31_FiredBeforePulseEnded ==
    /\ spLast.op = "delayTimerCb"
    /\ sp.nFired > 0
    /\ spLast.pulsePending
    /\ sp.moc = 1
    /\ sp.pulseTimer # NotArmed
    /\ sp.pulseTimer < nowUs + gatePulseUs

\* the controller as it is until the first start(): not running, nothing
\* scheduled, no timer armed, the gate low
NeverStarted ==
    /\ ~sp.running
    /\ ~sp.fireScheduled
    /\ sp.delayTimer = NotArmed
    /\ sp.pulseTimer = NotArmed
    /\ sp.moc = 0

\* C32: a zero-cross edge that arrives while running is false changes nothing
\* but lastZcUsec (no delay timer armed, fireScheduled as it was), and until
\* the first start() no step arms a timer or asserts the gate.
C32_StoppedEdgeOnlyRecords ==
    [][/\ (ZeroCross /\ ~sp.running)
            => sp' = [SpFresh(sp) EXCEPT !.lastZcUsec = nowUs]
       /\ (NeverStarted /\ ~StirrerStart) => NeverStarted']_vars

\* an accepted edge after begin() and setTargetRPM(), no start() so far
C32_EdgeBeforeStart ==
    /\ spLast.op = "zc"
    /\ ~spHist.edgeBounce
    /\ spHist.rpmSet
    /\ sp.begun
    /\ sp.lastZcUsec = nowUs
    /\ sp.delayUs < halfCycleUs
    /\ NeverStarted

\* a sample checkFaultConditions() takes as a valid reading
ValidSample(temp) ==
    ~isnan(temp) /\ Ge(temp, MinValidTemp) /\ Le(temp, MaxValidTemp)

\* C33: in the revised thermal loop a fault that is set stays set over every
\* step except an update() that processes a valid sample below maxTemp - 5
\* (so it stays set for samples in [maxTemp - 5, maxTemp)); while the fault is
\* set start() leaves the relay off, and an update() that ends with the fault
\* set runs no bang-bang step: relay off, no heater-on and no target-reached
\* callback, the latch as it was.
C33_FaultHeldUntilCoolDown ==
    [][(rev = "v2" /\ heater.fault)
          => /\ heater'.fault
                \/ /\ HeaterUpdate
                   /\ ~last'.sensorFault
                   /\ ValidSample(heater'.currentTemp)
                   /\ Lt(heater'.currentTemp, MaxTemp - FaultClearBand)
             /\ HeaterStart => (~heater'.isRunning /\ heater'.nOn = 0)
             /\ (HeaterUpdate /\ heater'.fault)
                   => /\ ~heater'.isRunning
                      /\ heater'.nOn = 0
                      /\ heater'.nReached = 0
                      /\ heater'.targetReachedTriggered
                            = heater.targetReachedTriggered]_vars

\* under a fault, a valid sample in [maxTemp - 5, maxTemp) that is below the
\* switch-on threshold of the target: the fault is kept and the relay is off
C33_FaultKeptInBand ==
    /\ rev = "v2"
    /\ last.op = "update"
    /\ last.wasFault
    /\ ~last.sensorFault
    /\ Ge(heater.currentTemp, MaxTemp - FaultClearBand)
    /\ Lt(heater.currentTemp, MaxTemp)
    /\ heater.targetTempSet
    /\ Lt(heater.currentTemp, OnThreshold(heater))
    /\ heater.fault
    /\ ~heater.isRunning

\* C34: with heaterTask in heater.update() and stateTask in heater.start(),
\* stop() and setTargetTemperature() interleaved in every way, whenever both
\* tasks are outside their calls the relay is not on with fault set.
C34_NoRelayOnUnderFaultInterleaved ==
    (tasks = TasksIdle) => ~(heater.fault /\ heater.relayPin)

\* C35: in Ramp mode and in Timer mode with a temperature, when the last
\* thermal-loop update() has switched the relay off because the sample was
\* >= target + tolerance, a mode-manager update() leaves the relay off as long
\* as that sample is >= target + tolerance of the target it leaves.
C35_NoRestartAboveBand ==
    [][(/\ ModeUpdate
        /\ mm.mode = "RAMP" \/ (mm.mode = "TIMER" /\ mm.timerUseTemp)
        /\ last.op = "update"
        /\ last.wasRunning
        /\ ~heater.isRunning
        /\ ~heater.fault
        /\ heater.targetTempSet
        /\ Ge(heater.currentTemp, OffThreshold(heater))
        /\ heater'.targetTempSet
        /\ Ge(heater'.currentTemp, OffThreshold(heater')))
          => ~heater'.isRunning]_vars

\* C36: while the mode is Off a thermal-loop update() does not turn the relay
\* on, whatever the sample and whatever target an earlier mode has set.
C36_NoHeatingInOff ==
    (last.op = "update" /\ mm.mode = "OFF")
        => /\ heater.nOn = 0
           /\ heater.isRunning => last.wasRunning

\* C37: in every reachable state, the initial one included, the stored delay
\* is the delay that the RPM-to-delay mapping gives for the stored target
\* RPM (the one setTargetRPM(targetRpm) would store).
C37_DelayMatchesStoredTarget ==
    ~isnan(sp.targetRpm)
        => \A ub \in UBCastOutcomes :
              sp.delayUs = SP_setTargetRPM(sp, sp.targetRpm, ub).delayUs

\* C38: with the zero-cross handler interleaved with delayTimerCb, whenever
\* the delay timer is armed (and the callback is not under way) fireScheduled
\* is true, so that the expiry of a timer armed by the handler asserts the
\* gate.
C38_ArmedImpliesScheduled ==
    (tasks.cb = "idle" /\ sp.delayTimer # NotArmed) => sp.fireScheduled

\* C39: at the first modeManager.update() after setRamp() or setTimer(),
\* without a fault, completion is reported exactly when durationSeconds * 1000
\* milliseconds have elapsed since the setter, also when millis() has wrapped
\* around in between and when durationSeconds * 1000 exceeds 2^32 - 1.
C39_CompletionWhenReallyElapsed ==
    [][(/\ ModeUpdate
        /\ ~heater.fault
        /\ \/ last.op = "setRamp" /\ mm.mode = "RAMP"
           \/ last.op = "setTimer" /\ mm.mode = "TIMER")
          => LET start   == IF mm.mode = "RAMP" THEN mm.rampStartTime
                            ELSE mm.timerStartTime
                 elapsed == U32(millis - start)
             IN  (mm'.nComplete = 1) <=> (elapsed >= last.seconds * UnitsPerSecond)]_vars

\* C40: after every step (running is false initially) running implies that
\* begin() has completed (begun is set, the handler is attached, both timers
\* are created), the delay timer is armed only once it is created, and a
\* start() that sets running was called with fault false.
C40_RunningOnlyWhenBegun ==
    [][/\ sp'.running => /\ sp'.begun
                         /\ sp'.isrHandlers = 1
                         /\ sp'.delayTimersCreated = 1
                         /\ sp'.pulseTimersCreated = 1
       /\ sp'.delayTimer # NotArmed => sp'.delayTimersCreated = 1
       /\ (StirrerStart /\ ~sp.running /\ sp'.running) => ~sp.fault]_vars

\* start() on a controller that begin() was never called on
C40_StartedWithoutBegin ==
    /\ spLast.op = "start"
    /\ ~spLast.prevBegun
    /\ sp.running
    /\ sp.begun
    /\ sp.isrHandlers = 1
    /\ sp.delayTimersCreated = 1
    /\ sp.pulseTimersCreated = 1

====
